---------------------------- MODULE Spec2Model ----------------------------
(* scripts/generate-favicons.py: probe for ImageMagick, check the source   *)
(* SVG, convert it to four PNG sizes, bundle two of them into favicon.ico. *)
(* The filesystem, the process position, the exit status and the external  *)
(* invocations made are the state; the external tool is the environment.   *)
EXTENDS Integers, Sequences, FiniteSets, TLC

VARIABLES
    pc,       \* the statement the process is at
    idx,      \* position of the for loop in sizes (0 outside the loop)
    fs,       \* filesystem: path -> content, Absent when there is no file
    status,   \* <<>> while running, <<code>> once the process has ended
    banner,   \* the success banner of line 84 has been printed
    log,      \* external invocations of this run: [argv, res], in order
    written,  \* paths the external tool wrote during this run
    fs0,      \* the filesystem as this run found it
    run,      \* number of the current run of the script
    prevFs,   \* the filesystem as the previous run left it
    prevOk    \* the previous run ended with status 0

vars == <<pc, idx, fs, status, banner, log, written, fs0, run, prevFs, prevOk>>

\* ------------------------------------------------------------- bounds
MaxSvg  == 2     \* distinct contents the source asset can have
MaxRuns == 2     \* successive runs of the script

\* ------------------------------------------------------- file contents
Absent  == ""
Garbage == "partial"
SvgContent(v) == "svg" \o ToString(v)
SvgContents == {SvgContent(v) : v \in 1..MaxSvg}

\* ----------------------------------------------------- script constants
svg_file == "public/favicon.svg"
\* variants of sizes: another order, and the 48 entry dropped
sizesReordered == <<96, 48, 192>>
sizesWithout48 == <<96, 192>>
sizes == <<48, 96, 192>>
ExitFailure == 1
ExitSuccess == 0

Geometry(size) == ToString(size) \o "x" \o ToString(size)
PngPath(size) == "public/favicon-" \o Geometry(size) \o ".png"
legacy_output_file == "public/favicon-32x32.png"

ProbeCmd == <<"convert", "--version">>
\* variant of ConvertCmd with the two file operands exchanged
ConvertCmdSwapped(geometry, output_file) ==
    <<"convert", "-background", "none", "-density", "300",
      "-resize", geometry, output_file, svg_file>>
ConvertCmd(geometry, output_file) ==
    <<"convert", "-background", "none", "-density", "300",
      "-resize", geometry, svg_file, output_file>>
LoopCmd(size) == ConvertCmd(Geometry(size), PngPath(size))
LegacyCmd == ConvertCmd("32x32", legacy_output_file)
\* variant of ico_cmd with another target name
ico_cmdPng == <<"convert", "public/favicon-32x32.png",
                "public/favicon-48x48.png", "public/favicon.png">>
ico_cmd == <<"convert", "public/favicon-32x32.png",
             "public/favicon-48x48.png", "public/favicon.ico">>

\* ------------------------------------------------- the external tool
Outcomes == {"ok", "nonzero", "notfound"}

Last(s) == s[Len(s)]
Front(s) == SubSeq(s, 1, Len(s) - 1)

\* file operands of a convert command line: options and their values skipped
Operands(argv) ==
    IF argv[2] = "--version" THEN <<>>
    ELSE IF argv[2] = "-background" THEN SubSeq(argv, 8, Len(argv))
    ELSE Tail(argv)

Inputs(argv) == IF Operands(argv) = <<>> THEN <<>> ELSE Front(Operands(argv))

Read(f, path) == IF path \in DOMAIN f THEN f[path] ELSE Absent
WriteFile(f, path, content) ==
    [p \in DOMAIN f \cup {path} |-> IF p = path THEN content ELSE f[p]]

\* a deterministic tool: the output is a function of inputs and parameters
Rasterize(content, geometry) == "png(" \o content \o "@" \o geometry \o ")"
Bundle(a, b) == "ico(" \o a \o "+" \o b \o ")"

Produce(f, argv) ==
    IF argv[2] = "-background"
    THEN Rasterize(Read(f, Inputs(argv)[1]), argv[7])
    ELSE Bundle(Read(f, Inputs(argv)[1]), Read(f, Inputs(argv)[2]))

\* the tool can only succeed when every input file is there
CanSucceed(f, argv) ==
    \A k \in 1..Len(Inputs(argv)) : Read(f, Inputs(argv)[k]) # Absent

\* a success writes the target, a failing run may leave a partial target
\* behind, a missing executable and the version query touch nothing
Writes(argv, res, partial) ==
    /\ Operands(argv) # <<>>
    /\ res = "ok" \/ (res = "nonzero" /\ partial)

ToolEffect(f, argv, res, partial) ==
    IF ~Writes(argv, res, partial) THEN f
    ELSE IF res = "ok" THEN WriteFile(f, Last(argv), Produce(f, argv))
    ELSE WriteFile(f, Last(argv), Garbage)

\* subprocess.run(argv, check=True)
SubprocessRun(argv, res, partial) ==
    /\ res = "ok" => CanSucceed(fs, argv)
    /\ fs' = ToolEffect(fs, argv, res, partial)
    /\ log' = Append(log, [argv |-> argv, res |-> res])
    /\ written' = IF Writes(argv, res, partial)
                  THEN written \cup {Last(argv)}
                  ELSE written

\* sys.exit(code), or the interpreter ending on an uncaught exception
Exit(code) ==
    /\ pc' = "exited"
    /\ idx' = 0
    /\ status' = <<code>>

History == <<fs0, run, prevFs, prevOk>>

\* ------------------------------------------------------------ the script
\* variant of CheckDependencies whose except branch does not exit
CheckDependenciesNoExit ==
    /\ pc = "check_dependencies"
    /\ \E res \in Outcomes : SubprocessRun(ProbeCmd, res, FALSE)
    /\ pc' = "exists"
    /\ UNCHANGED <<idx, status, banner, History>>

\* lines 11-17
CheckDependencies ==
    /\ pc = "check_dependencies"
    /\ \E res \in Outcomes :
        /\ SubprocessRun(ProbeCmd, res, FALSE)
        /\ IF res = "ok"
           THEN pc' = "exists" /\ UNCHANGED <<idx, status>>
           ELSE Exit(ExitFailure)
    /\ UNCHANGED <<banner, History>>

\* variant of CheckSource without the exit on a missing file
CheckSourceNoExit ==
    /\ pc = "exists"
    /\ pc' = "loop" /\ idx' = 1
    /\ UNCHANGED <<fs, status, banner, log, written, History>>

\* lines 25-27
CheckSource ==
    /\ pc = "exists"
    /\ IF Read(fs, svg_file) = Absent
       THEN Exit(ExitFailure)
       ELSE pc' = "loop" /\ idx' = 1 /\ UNCHANGED status
    /\ UNCHANGED <<fs, banner, log, written, History>>

\* variant of LoopConvert that goes on to the next size after a failure
LoopConvertContinue ==
    /\ pc = "loop"
    /\ \E res \in Outcomes, partial \in BOOLEAN :
        /\ res # "nonzero" => ~partial
        /\ SubprocessRun(LoopCmd(sizes[idx]), res, partial)
    /\ IF idx < Len(sizes)
       THEN pc' = "loop" /\ idx' = idx + 1
       ELSE pc' = "legacy" /\ idx' = 0
    /\ UNCHANGED <<status, banner, History>>

\* lines 29-45, one iteration
LoopConvert ==
    /\ pc = "loop"
    /\ \E res \in Outcomes, partial \in BOOLEAN :
        /\ res # "nonzero" => ~partial
        /\ SubprocessRun(LoopCmd(sizes[idx]), res, partial)
        /\ IF res = "ok"
           THEN /\ IF idx < Len(sizes)
                   THEN pc' = "loop" /\ idx' = idx + 1
                   ELSE pc' = "legacy" /\ idx' = 0
                /\ UNCHANGED status
           ELSE Exit(ExitFailure)
    /\ UNCHANGED <<banner, History>>

\* variant of LegacyConvert that goes on to the bundle after a failure
LegacyConvertNoExit ==
    /\ pc = "legacy"
    /\ \E res \in Outcomes, partial \in BOOLEAN :
        /\ res # "nonzero" => ~partial
        /\ SubprocessRun(LegacyCmd, res, partial)
    /\ pc' = "ico"
    /\ UNCHANGED <<idx, status, banner, History>>

\* variant of LegacyConvert that keeps a target that is already there
LegacyConvertSkipExisting ==
    /\ pc = "legacy"
    /\ IF Read(fs, legacy_output_file) # Absent
       THEN pc' = "ico" /\ UNCHANGED <<idx, status, fs, log, written>>
       ELSE \E res \in Outcomes, partial \in BOOLEAN :
            /\ res # "nonzero" => ~partial
            /\ SubprocessRun(LegacyCmd, res, partial)
            /\ IF res = "ok"
               THEN pc' = "ico" /\ UNCHANGED <<idx, status>>
               ELSE Exit(ExitFailure)
    /\ UNCHANGED <<banner, History>>

\* lines 47-63
LegacyConvert ==
    /\ pc = "legacy"
    /\ \E res \in Outcomes, partial \in BOOLEAN :
        /\ res # "nonzero" => ~partial
        /\ SubprocessRun(LegacyCmd, res, partial)
        /\ IF res = "ok"
           THEN pc' = "ico" /\ UNCHANGED <<idx, status>>
           ELSE Exit(ExitFailure)
    /\ UNCHANGED <<banner, History>>

\* variant of IcoConvert that prints the banner whatever the tool returned
IcoConvertSwallow ==
    /\ pc = "ico"
    /\ \E res \in Outcomes, partial \in BOOLEAN :
        /\ res # "nonzero" => ~partial
        /\ SubprocessRun(ico_cmd, res, partial)
    /\ pc' = "banner"
    /\ UNCHANGED <<idx, status, banner, History>>

\* lines 65-79
IcoConvert ==
    /\ pc = "ico"
    /\ \E res \in Outcomes, partial \in BOOLEAN :
        /\ res # "nonzero" => ~partial
        /\ SubprocessRun(ico_cmd, res, partial)
        /\ IF res = "ok"
           THEN pc' = "banner" /\ UNCHANGED <<idx, status>>
           ELSE Exit(ExitFailure)
    /\ UNCHANGED <<banner, History>>

\* lines 84-89, then the interpreter ends normally
Banner ==
    /\ pc = "banner"
    /\ banner' = TRUE
    /\ Exit(ExitSuccess)
    /\ UNCHANGED <<fs, log, written, History>>

\* --------------------------------------------------- the operator reruns
OutputPaths ==
    {PngPath(sizes[k]) : k \in 1..Len(sizes)}
        \cup {legacy_output_file, Last(ico_cmd)}
Paths == {svg_file} \cup OutputPaths

Start(f) ==
    /\ pc = "exited"
    /\ run < MaxRuns
    /\ pc' = "check_dependencies"
    /\ idx' = 0
    /\ status' = <<>>
    /\ banner' = FALSE
    /\ log' = <<>>
    /\ written' = {}
    /\ run' = run + 1
    /\ prevFs' = fs
    /\ prevOk' = (status = <<ExitSuccess>>)
    /\ fs' = f
    /\ fs0' = f

Rerun == Start(fs)

RerunAfterSourceEdit ==
    \E c \in SvgContents \cup {Absent} :
        /\ c # Read(fs, svg_file)
        /\ Start(WriteFile(fs, svg_file, c))

RerunAfterOutputLoss ==
    \E p \in OutputPaths, c \in {Absent, Garbage} :
        /\ c # Read(fs, p)
        /\ Start(WriteFile(fs, p, c))

\* ------------------------------------------------------------------ spec
Init ==
    /\ pc = "check_dependencies"
    /\ idx = 0
    /\ status = <<>>
    /\ banner = FALSE
    /\ log = <<>>
    /\ written = {}
    /\ run = 1
    /\ prevOk = FALSE
    /\ fs \in [Paths -> SvgContents \cup {Absent, Garbage}]
    /\ fs[svg_file] # Garbage
    /\ \A p \in OutputPaths : fs[p] \in {Absent, Garbage}
    /\ fs0 = fs
    /\ prevFs = fs

Next ==
    \/ CheckDependencies
    \/ CheckSource
    \/ LoopConvert
    \/ LegacyConvert
    \/ IcoConvert
    \/ Banner
    \/ Rerun
    \/ RerunAfterSourceEdit
    \/ RerunAfterOutputLoss

Spec == Init /\ [][Next]_vars

TypeOK ==
    /\ pc \in {"check_dependencies", "exists", "loop", "legacy", "ico",
               "banner", "exited"}
    /\ idx \in 0..Len(sizes)
    /\ DOMAIN fs = Paths
    /\ status \in {<<>>, <<ExitSuccess>>, <<ExitFailure>>}
    /\ run \in 1..MaxRuns

\* ------------------------------------------------ vocabulary of the claims
\* the paths and the processing order as the specification states them
SourceAsset == "public/favicon.svg"
Png48 == "public/favicon-48x48.png"
Png96 == "public/favicon-96x96.png"
Png192 == "public/favicon-192x192.png"
Png32 == "public/favicon-32x32.png"
Ico == "public/favicon.ico"
FiveOutputs == {Png48, Png96, Png192, Png32, Ico}
Order == <<Png48, Png96, Png192, Png32>>
Resize == <<"48x48", "96x96", "192x192", "32x32">>

Conversion(n) ==
    <<"convert", "-background", "none", "-density", "300",
      "-resize", Resize[n], SourceAsset, Order[n]>>
Pipeline ==
    <<(<<"convert", "--version">>), Conversion(1), Conversion(2),
      Conversion(3), Conversion(4), (<<"convert", Png32, Png48, Ico>>)>>

Ended == pc = "exited"
ExitedNonZero == Ended /\ status # <<>> /\ status # <<0>>
IsConversion(e) == e.argv[2] = "-background"
IsBundle(e) == e.argv[2] # "--version" /\ e.argv[2] # "-background"
AllOk == \A k \in 1..Len(log) : log[k].res = "ok"
OutputsUntouched ==
    /\ \A p \in FiveOutputs : Read(fs, p) = Read(fs0, p)
    /\ written = {}
\* the tool failed on the n-th conversion of this run
FailedOn(n) ==
    /\ log # <<>>
    /\ IsConversion(Last(log))
    /\ Last(Last(log).argv) = Order[n]
    /\ Last(log).res # "ok"

\* ---------------------------------------------------------------- claims
\* C1 as stated: when the tool fails on the N-th conversion, at the end of
\* the process the outputs of the sizes before N exist, the outputs of the
\* sizes after N do not exist, and the exit status is non-zero.
C1_AsStated ==
    \A n \in 1..4 :
        (Ended /\ FailedOn(n)) =>
            /\ \A k \in 1..(n - 1) : Read(fs, Order[k]) # Absent
            /\ \A k \in (n + 1)..4 : Read(fs, Order[k]) = Absent
            /\ ExitedNonZero

\* C1 amended: when the tool fails on the N-th conversion, at the end of the
\* process the outputs of the sizes before N exist, the outputs of the sizes
\* after N are as the run found them (absent if they were absent, never
\* written by this run), and the exit status is non-zero.
C1_FailOnNth ==
    \A n \in 1..4 :
        (Ended /\ FailedOn(n)) =>
            /\ \A k \in 1..(n - 1) : Read(fs, Order[k]) # Absent
            /\ \A k \in (n + 1)..4 :
                /\ Read(fs, Order[k]) = Read(fs0, Order[k])
                /\ Order[k] \notin written
            /\ ExitedNonZero

\* the 96x96 conversion failed in a run that found a 192x192 output in place
C1_Witness ==
    /\ Ended /\ FailedOn(2)
    /\ Read(fs, Png48) # Absent
    /\ Read(fs0, Png192) # Absent

\* C2: when the capability probe fails (tool missing or non-zero status) the
\* process exits non-zero, the probe is the only external invocation, and
\* none of the five outputs is created or modified.
C2_ProbeFails ==
    (log # <<>> /\ log[1].res # "ok") =>
        /\ ExitedNonZero
        /\ Len(log) = 1
        /\ OutputsUntouched

\* the probe returned non-zero in a run that found an output file in place
C2_Witness ==
    /\ Ended
    /\ log # <<>> /\ log[1].res = "nonzero"
    /\ \E p \in FiveOutputs : Read(fs0, p) # Absent

\* C3: when the source asset is absent at the existence check, the process
\* exits non-zero, no conversion or bundle is invoked, and none of the five
\* outputs is created or modified.
C3_SourceAbsent ==
    (/\ pc \notin {"check_dependencies", "exists"}
     /\ log # <<>> /\ log[1].res = "ok"
     /\ Read(fs0, SourceAsset) = Absent) =>
        /\ ExitedNonZero
        /\ Len(log) = 1
        /\ OutputsUntouched

\* the probe succeeded, the source was absent and outputs were in place
C3_Witness ==
    /\ Ended
    /\ log # <<>> /\ log[1].res = "ok"
    /\ Read(fs0, SourceAsset) = Absent
    /\ \E p \in FiveOutputs : Read(fs0, p) # Absent

\* C4: the invocations come in the order probe, conversions, bundle, and a
\* failed invocation is the last one of its run: the process has ended with
\* it, non-zero, and the banner is not printed.
C4_FailFast ==
    /\ Len(log) <= Len(Pipeline)
    /\ \A k \in 1..Len(log) :
        /\ (k = 1) <=> (log[k].argv[2] = "--version")
        /\ (k \in 2..5) <=> IsConversion(log[k])
        /\ (k = 6) <=> IsBundle(log[k])
        /\ log[k].res # "ok" =>
            /\ k = Len(log)
            /\ ExitedNonZero
            /\ ~banner
    /\ banner => (Len(log) = Len(Pipeline) /\ AllOk)

\* the legacy conversion failed after the three others succeeded
C4_Witness ==
    /\ Ended /\ FailedOn(4)
    /\ Len(log) = 5
    /\ ~banner

\* C5: the exit status is 0 when the source exists and all six invocations
\* succeeded, and 1 in every other case.
FullSuccess ==
    /\ Read(fs0, SourceAsset) # Absent
    /\ Len(log) = Len(Pipeline)
    /\ AllOk
C5_ExitStatus ==
    /\ Ended => status = (IF FullSuccess THEN <<0>> ELSE <<1>>)
    /\ ~Ended => status = <<>>

\* a run ended with status 0 after an earlier run ended with status 1
C5_Witness ==
    /\ Ended /\ status = <<0>> /\ FullSuccess
    /\ run > 1 /\ ~prevOk

\* C6: after a run in which every invocation succeeded, the files among the
\* outputs are exactly the five fixed paths, and the run wrote exactly these.
C6_FiveOutputs ==
    (Ended /\ Len(log) = Len(Pipeline) /\ AllOk) =>
        /\ {p \in DOMAIN fs : fs[p] # Absent} \ {SourceAsset} = FiveOutputs
        /\ written = FiveOutputs

\* a fully successful run that found none of the outputs in place
C6_Witness ==
    /\ Ended /\ Len(log) = Len(Pipeline) /\ AllOk
    /\ \A p \in FiveOutputs : Read(fs0, p) = Absent

\* C7: two successful runs in succession over the same source content leave
\* the same contents in the five outputs, whatever happened to the outputs
\* between the runs.
C7_Idempotent ==
    (/\ Ended /\ status = <<0>>
     /\ run > 1 /\ prevOk
     /\ Read(fs0, SourceAsset) = Read(prevFs, SourceAsset)) =>
        \A p \in FiveOutputs : Read(fs, p) = Read(prevFs, p)

\* the second of two successful runs found an output altered in between
C7_Witness ==
    /\ Ended /\ status = <<0>>
    /\ run > 1 /\ prevOk
    /\ Read(fs0, SourceAsset) = Read(prevFs, SourceAsset)
    /\ \E p \in FiveOutputs : Read(fs0, p) # Read(prevFs, p)

\* C8: the bundle is invoked on the 32 and 48 outputs, only after this run's
\* conversions to both succeeded, and both files exist when it is invoked.
ProducedBefore(path, k) ==
    \E j \in 1..(k - 1) :
        /\ j <= Len(log)
        /\ IsConversion(log[j])
        /\ Last(log[j].argv) = path
        /\ log[j].res = "ok"
C8_BundleInputs ==
    /\ \A k \in 1..Len(log) :
        IsBundle(log[k]) =>
            /\ SubSeq(log[k].argv, 2, 3) = <<Png32, Png48>>
            /\ ProducedBefore(Png32, k)
            /\ ProducedBefore(Png48, k)
    /\ pc = "ico" =>
        /\ ProducedBefore(Png32, Len(log) + 1)
        /\ ProducedBefore(Png48, Len(log) + 1)
        /\ Read(fs, Png32) # Absent
        /\ Read(fs, Png48) # Absent

\* the process is about to invoke the bundle, in a rerun
C8_Witness ==
    /\ pc = "ico"
    /\ run > 1

\* C9: the invocations of a run without failure are, in this order and each
\* once, the probe, the conversions to 48, 96, 192 and 32, each writing the
\* file of its own size, and the bundle; no run makes more than six
\* invocations or makes one twice.
C9_OncePerSize ==
    /\ Len(log) <= 6
    /\ \A j, k \in 1..Len(log) : j # k => log[j].argv # log[k].argv
    /\ AllOk => \A k \in 1..Len(log) :
                    /\ k <= Len(Pipeline)
                    /\ log[k].argv = Pipeline[k]
    /\ (Ended /\ status = <<0>>) => Len(log) = Len(Pipeline)

\* nothing failed and all four conversions have been made
C9_Witness ==
    /\ AllOk
    /\ Len(log) = 5
    /\ pc = "ico"

\* C10: the source asset is never created, modified or deleted by a run,
\* and a run writes no path outside the five outputs.
C10_SourceReadOnly ==
    /\ Read(fs, SourceAsset) = Read(fs0, SourceAsset)
    /\ SourceAsset \notin written
    /\ written \subseteq FiveOutputs

\* a failing conversion left a partial file and the process has ended
C10_Witness ==
    /\ Ended /\ status = <<1>>
    /\ written # {}
    /\ \E p \in written : Read(fs, p) = Garbage
=============================================================================
